---- MODULE Spec2Model ----
(***************************************************************************)
(* Model of fetch-market: the RateLimiter, the retrying fetchers           *)
(* fetch_alpha_vantage_data (fetch_a_share_info.py) and                    *)
(* fetch_alpha_vantage_daily (fetch_a_shares.py), and the aggregator       *)
(* fetch_stock_comprehensive_info.                                         *)
(*                                                                         *)
(* Time is the reading of time.monotonic() in whole seconds.  The clock is *)
(* tracked up to the horizon MaxClock and stays there afterwards, so every *)
(* statement about timestamps is made for instants before the horizon.     *)
(***************************************************************************)
EXTENDS Integers, Sequences, FiniteSets, TLC

\* ------------------------------------------------------------------ bounds
MaxClock == 6
MaxInitClock == 1
MaxRetries == 16
MaxRetriesTimed == 2
MaxSymbolLen == 4
MaxSymbols == 2
MaxDays == 8
MaxFeed == 12

\* the threads that call the fetchers through the one RateLimiter
Callers == {1, 2}

\* values of --calls-per-minute drawn for the limiter (interval 2 s and 1 s)
CallsPerMinute == {30, 60}

Sites == {"info", "daily"}

Min(a, b) == IF a < b THEN a ELSE b
Max(a, b) == IF a > b THEN a ELSE b

VARIABLES
    clock,            \* time.monotonic()
    interval_seconds, \* RateLimiter.interval_seconds
    lock,             \* RateLimiter._lock: the set of callers holding it
    last_call_ts,     \* RateLimiter._last_call_ts
    transport,        \* the responses the upstream can give to this run's GETs
    json_error_is_request_exception,
                      \* whether resp.json() raises a requests.RequestException
                      \* (requests >= 2.27) or a plain ValueError (older)
    pc,               \* where each caller is
    site,             \* which fetcher the caller runs: "info" or "daily"
    fn,               \* the function parameter of the call
    max_retries,
    attempt,
    now,              \* wait(): local now
    wait_seconds,     \* wait(): local wait_seconds
    wake,             \* the instant at which the caller's time.sleep returns
    last_resp,        \* the response the caller's last GET got
    slept,            \* seconds of the backoff sleep of the current attempt
    result,           \* how the fetch ended: "none", "data" or the exception
    acqs,             \* completed wait() calls of the caller's fetch
    gets,             \* GETs issued by the caller's fetch
    grants,           \* number of updates of _last_call_ts
    first_grant_ts,   \* the first recorded last-call time
    prev_grant_ts,    \* the recorded last-call time before the current one
    total_gets,       \* GETs dispatched through the limiter
    prev_get_ts,      \* dispatch time of the GET before the latest
    last_get_ts,      \* dispatch time of the latest GET
    symbol,           \* fetch_stock_comprehensive_info: the identifier passed in
    stage,            \* the try block the aggregator is in, "none" outside it
    info_result,      \* fetch_stock_comprehensive_info: the dict result
    partial,          \* what each adapter ended with: its record, or "failed"
    driver,           \* which main runs: "info", "daily", or "none"
    raw_symbols,      \* main: args.symbols
    position,         \* main: the identifiers the for loop has finished with
    all_results,      \* main of fetch_a_share_info.py: all_results
    frames,           \* main of fetch_a_shares.py: the symbols of the frames kept
    batch,            \* "none", "running", "finished" or the exception main died of
    callee,           \* the pure function under call, "none" when there is none
    argument,         \* its argument
    returned          \* what it returned, NotReturned before it has

limiterVars == <<interval_seconds, lock, last_call_ts>>
callVars == <<site, fn, max_retries, transport, json_error_is_request_exception>>
aggVars == <<symbol, stage, info_result, partial>>
histVars == <<grants, first_grant_ts, prev_grant_ts, total_gets, prev_get_ts, last_get_ts>>
batchVars == <<driver, raw_symbols, position, all_results, frames, batch>>
pureVars == <<callee, argument, returned>>
extVars == <<batchVars, pureVars>>
vars == <<clock, interval_seconds, lock, last_call_ts, transport,
          json_error_is_request_exception,
          pc, site, fn, max_retries, attempt, now, wait_seconds, wake, last_resp,
          slept, result, acqs, gets, grants, first_grant_ts, prev_grant_ts,
          total_gets, prev_get_ts, last_get_ts, symbol, stage, info_result, partial,
          driver, raw_symbols, position, all_results, frames, batch,
          callee, argument, returned>>

\* ------------------------------------------------------------ RateLimiter

\* self.interval_seconds = 60.0 / max(1, calls_per_minute)
IntervalSeconds(calls_per_minute) == 60 \div Max(1, calls_per_minute)

\* a clock that can be set back, as time.time() can
WallClockSteps(t) == {Min(t + 1, MaxClock), Max(t - 1, 0)}

\* time.monotonic() never goes backwards: the readings that can follow t
MonotonicSteps(t) == {Min(t + 1, MaxClock)}

\* a sleep that never returns
SleepForever(t, d) == MaxClock + 1

\* time.sleep(d) started at t returns no earlier than t + d
SleepUntil(t, d) == Min(t + d, MaxClock)

\* a lock that never makes a caller wait
LockNeverHeld == TRUE

\* with self._lock: the lock is taken only when nobody holds it
LockAvailable == lock = {}

\* the wait computed from the clock reading alone
WaitSecondsIgnoringLastCall(t) == interval_seconds - t

\* wait_seconds = self.interval_seconds - (now - self._last_call_ts)
WaitSeconds(t) == interval_seconds - (t - last_call_ts)

\* self._last_call_ts = time.monotonic()
StampValue(c) == clock

Tick ==
    /\ clock < MaxClock
    /\ clock' \in MonotonicSteps(clock)
    /\ UNCHANGED <<extVars, limiterVars, callVars, aggVars, histVars, pc, attempt, now,
                   wait_seconds, wake, last_resp, slept, result, acqs, gets>>

\* a wait() that returns with the lock still held
LockKeptOnReturn(c) == lock

\* the end of the with block releases the lock
ReleasedLock(c) == lock \ {c}

wait_enter(c) ==
    /\ pc[c] = "w_lock"
    /\ LockAvailable
    /\ lock' = lock \cup {c}
    /\ pc' = [pc EXCEPT ![c] = "w_now"]
    /\ UNCHANGED <<extVars, clock, interval_seconds, last_call_ts, callVars, aggVars, histVars, attempt,
                   now, wait_seconds, wake, last_resp, slept, result, acqs, gets>>

wait_compute(c) ==
    /\ pc[c] = "w_now"
    /\ now' = [now EXCEPT ![c] = clock]
    /\ wait_seconds' = [wait_seconds EXCEPT ![c] = WaitSeconds(clock)]
    /\ IF WaitSeconds(clock) > 0
       THEN /\ wake' = [wake EXCEPT ![c] = SleepUntil(clock, WaitSeconds(clock))]
            /\ pc' = [pc EXCEPT ![c] = "w_sleep"]
       ELSE /\ wake' = wake
            /\ pc' = [pc EXCEPT ![c] = "w_stamp"]
    /\ UNCHANGED <<extVars, clock, limiterVars, callVars, aggVars, histVars, attempt, last_resp, slept,
                   result, acqs, gets>>

wait_sleep(c) ==
    /\ pc[c] = "w_sleep"
    /\ clock >= wake[c]
    /\ pc' = [pc EXCEPT ![c] = "w_stamp"]
    /\ UNCHANGED <<extVars, clock, limiterVars, callVars, aggVars, histVars, attempt, now, wait_seconds,
                   wake, last_resp, slept, result, acqs, gets>>

wait_stamp(c) ==
    /\ pc[c] = "w_stamp"
    /\ last_call_ts' = StampValue(c)
    /\ grants' = grants + 1
    /\ first_grant_ts' = IF grants = 0 THEN StampValue(c) ELSE first_grant_ts
    /\ prev_grant_ts' = last_call_ts
    /\ pc' = [pc EXCEPT ![c] = "w_unlock"]
    /\ UNCHANGED <<extVars, clock, interval_seconds, lock, callVars, aggVars, total_gets, prev_get_ts,
                   last_get_ts, attempt, now, wait_seconds, wake, last_resp, slept,
                   result, acqs, gets>>

wait_exit(c) ==
    /\ pc[c] = "w_unlock"
    /\ lock' = ReleasedLock(c)
    /\ now' = [now EXCEPT ![c] = 0]
    /\ wait_seconds' = [wait_seconds EXCEPT ![c] = 0]
    /\ wake' = [wake EXCEPT ![c] = 0]
    /\ acqs' = [acqs EXCEPT ![c] = @ + 1]
    /\ pc' = [pc EXCEPT ![c] = "get"]
    /\ UNCHANGED <<extVars, clock, interval_seconds, last_call_ts, callVars, aggVars, histVars, attempt,
                   last_resp, slept, result, gets>>

\* ------------------------------------------------------- Retrying fetcher

InfoFunctions == {"GLOBAL_QUOTE", "OVERVIEW", "NEWS_SENTIMENT", "TIME_SERIES_DAILY"}

\* the top-level key the parser of each endpoint looks for
ExpectedKey(f) ==
    CASE f = "GLOBAL_QUOTE" -> "Global Quote"
      [] f = "OVERVIEW" -> "Symbol"
      [] f = "NEWS_SENTIMENT" -> "feed"
      [] OTHER -> "Time Series (Daily)"

\* What one session.get can produce: a requests.RequestException, a non-200
\* status, a 200 whose body is not JSON, or a 200 with a decoded body (its
\* top-level keys, and whether the values under the expected key parse).
NetworkError == [exc |-> TRUE, status_code |-> 0, json_ok |-> FALSE, keys |-> {}, wellformed |-> FALSE]
Http500 == [exc |-> FALSE, status_code |-> 500, json_ok |-> FALSE, keys |-> {}, wellformed |-> FALSE]
NotJson == [exc |-> FALSE, status_code |-> 200, json_ok |-> FALSE, keys |-> {}, wellformed |-> FALSE]
NoResponse == [exc |-> FALSE, status_code |-> 0, json_ok |-> FALSE, keys |-> {}, wellformed |-> FALSE]

BodyKeySets(f) ==
    { {}, {"Note"}, {"Information"}, {"Error Message"}, {"Note", "Error Message"},
      {ExpectedKey(f)}, {ExpectedKey(f), "Note"}, {ExpectedKey(f), "Error Message"} }

Bodies(f) ==
    { [exc |-> FALSE, status_code |-> 200, json_ok |-> TRUE, keys |-> k, wellformed |-> TRUE] :
        k \in BodyKeySets(f) }
    \cup { [exc |-> FALSE, status_code |-> 200, json_ok |-> TRUE,
            keys |-> {ExpectedKey(f)}, wellformed |-> FALSE] }

Responses(f) == {NetworkError, Http500, NotJson} \cup Bodies(f)

\* the non-200 sleep without its cap
HttpBackoffUncapped(s, a) == a * 2

\* time.sleep(min(30, attempt * 2)) / time.sleep(min(60, attempt * 2)) after a non-200
HttpBackoff(s, a) == IF s = "info" THEN Min(30, a * 2) ELSE Min(60, a * 2)

\* the sleep of the except requests.RequestException branch
NetworkBackoff(s, a) == IF s = "info" THEN Min(30, a * 2) ELSE Min(60, a * 2)

\* wait_more = min(60, 15 * attempt) / min(75, 10 * attempt)
ThrottleBackoff(s, a) == IF s = "info" THEN Min(60, 15 * a) ELSE Min(75, 10 * a)

\* fetch_alpha_vantage_daily: time.sleep(min(60, attempt * 2)) when no branch matched
UnexpectedBackoff(a) == Min(60, a * 2)

\* if "Note" in data or "Information" in data
IsThrottled(r) == "Note" \in r.keys \/ "Information" \in r.keys

\* the test made on a key the upstream never sends
IsErrorPayloadWrongKey(r) == "Error" \in r.keys

\* if "Error Message" in data
IsErrorPayload(r) == "Error Message" \in r.keys

\* both fetchers returning whatever body passed the two tests
IsReturnedUnchecked(s, r) == TRUE

\* fetch_alpha_vantage_data returns data once neither test matched;
\* fetch_alpha_vantage_daily returns it only if "Time Series (Daily)" in data
IsReturned(s, r) == s = "info" \/ "Time Series (Daily)" \in r.keys

\* the error-message key tested before the soft-throttle markers
ClassifyErrorFirst(s, r) ==
    IF r.exc THEN "network"
    ELSE IF r.status_code # 200 THEN "http"
    ELSE IF ~r.json_ok THEN "decode"
    ELSE IF IsErrorPayload(r) THEN "error"
    ELSE IF IsThrottled(r) THEN "throttle"
    ELSE IF IsReturned(s, r) THEN "return"
    ELSE "unexpected"

\* The branch of the loop body a response takes, in the order the code tests.
Classify(s, r) ==
    IF r.exc THEN "network"
    ELSE IF r.status_code # 200 THEN "http"
    ELSE IF ~r.json_ok THEN "decode"
    ELSE IF IsThrottled(r) THEN "throttle"
    ELSE IF IsErrorPayload(r) THEN "error"
    ELSE IF IsReturned(s, r) THEN "return"
    ELSE "unexpected"

\* the seconds slept by the branch, 0 when the branch does not sleep
BackoffSeconds(s, a, r) ==
    CASE Classify(s, r) = "network" -> NetworkBackoff(s, a)
      [] Classify(s, r) = "http" -> HttpBackoff(s, a)
      [] Classify(s, r) = "decode" ->
            IF json_error_is_request_exception THEN NetworkBackoff(s, a) ELSE 0
      [] Classify(s, r) = "throttle" -> ThrottleBackoff(s, a)
      [] Classify(s, r) = "unexpected" -> UnexpectedBackoff(a)
      [] OTHER -> 0

\* how the branch leaves the loop body: "retry" (sleep, next attempt),
\* "data" (return data) or the exception that propagates
BranchExit(s, r) ==
    CASE Classify(s, r) = "error" -> "ValueError"
      [] Classify(s, r) = "return" -> "data"
      [] Classify(s, r) = "decode" ->
            IF json_error_is_request_exception THEN "retry" ELSE "JSONDecodeError"
      [] OTHER -> "retry"

\* rate_limiter.wait() called only before a retry
PcOfAttemptNoFirstWait(a) == IF a = 1 THEN "get" ELSE "w_lock"

\* each attempt starts with rate_limiter.wait()
PcOfAttempt(a) == "w_lock"

\* a loop that runs one attempt too many
HasAttemptLeftOffByOne(a, m) == a <= m

\* for attempt in range(1, max_retries + 1), a being the attempts made so far
HasAttemptLeft(a, m) == a < m

for_loop(c) ==
    /\ pc[c] = "loop"
    /\ IF HasAttemptLeft(attempt[c], max_retries[c])
       THEN /\ attempt' = [attempt EXCEPT ![c] = @ + 1]
            /\ pc' = [pc EXCEPT ![c] = PcOfAttempt(attempt[c] + 1)]
            /\ result' = result
       ELSE /\ attempt' = attempt
            /\ pc' = [pc EXCEPT ![c] = "done"]
            /\ result' = [result EXCEPT ![c] = "RuntimeError"]
    /\ slept' = [slept EXCEPT ![c] = 0]
    /\ last_resp' = [last_resp EXCEPT ![c] =
                        IF HasAttemptLeft(attempt[c], max_retries[c]) THEN NoResponse ELSE @]
    /\ UNCHANGED <<extVars, clock, limiterVars, callVars, aggVars, histVars, now, wait_seconds, wake,
                   acqs, gets>>

\* resp = session.get(...): the request is dispatched
session_get(c) ==
    /\ pc[c] = "get"
    /\ gets' = [gets EXCEPT ![c] = @ + 1]
    /\ total_gets' = total_gets + 1
    /\ prev_get_ts' = last_get_ts
    /\ last_get_ts' = clock
    /\ pc' = [pc EXCEPT ![c] = "in_get"]
    /\ UNCHANGED <<extVars, clock, limiterVars, callVars, aggVars, grants, first_grant_ts, prev_grant_ts,
                   attempt, now, wait_seconds, wake, last_resp, slept, result, acqs>>

\* the response arrives and the loop body classifies it
handle_response(c) ==
    /\ pc[c] = "in_get"
    /\ \E r \in Responses(fn[c]) \cap transport :
        /\ last_resp' = [last_resp EXCEPT ![c] = r]
        /\ slept' = [slept EXCEPT ![c] = BackoffSeconds(site[c], attempt[c], r)]
        /\ IF BranchExit(site[c], r) = "retry"
           THEN /\ wake' = [wake EXCEPT ![c] =
                               SleepUntil(clock, BackoffSeconds(site[c], attempt[c], r))]
                /\ pc' = [pc EXCEPT ![c] = "backoff"]
                /\ result' = result
           ELSE /\ wake' = wake
                /\ pc' = [pc EXCEPT ![c] = "done"]
                /\ result' = [result EXCEPT ![c] = BranchExit(site[c], r)]
    /\ UNCHANGED <<extVars, clock, limiterVars, callVars, aggVars, histVars, attempt, now, wait_seconds,
                   acqs, gets>>

\* the backoff time.sleep returns; continue with the next attempt
backoff_sleep(c) ==
    /\ pc[c] = "backoff"
    /\ clock >= wake[c]
    /\ wake' = [wake EXCEPT ![c] = 0]
    /\ pc' = [pc EXCEPT ![c] = "loop"]
    /\ UNCHANGED <<extVars, clock, limiterVars, callVars, aggVars, histVars, attempt, now, wait_seconds,
                   last_resp, slept, result, acqs, gets>>

\* ------------------------------------- fetch_stock_comprehensive_info

\* the four try blocks, in the order the code runs them
Adapters == <<"GLOBAL_QUOTE", "OVERVIEW", "NEWS_SENTIMENT", "TIME_SERIES_DAILY">>

AdapterIndex(f) == CHOOSE i \in 1..Len(Adapters) : Adapters[i] = f

\* the keys of the dict each parser returns when it finds its data
RecordFields(f) ==
    CASE f = "GLOBAL_QUOTE" ->
            {"symbol", "current_price", "change", "change_percent", "volume",
             "previous_close", "open", "high", "low", "latest_trading_day"}
      [] f = "OVERVIEW" ->
            {"symbol", "company_name", "sector", "industry", "description",
             "market_cap", "pe_ratio", "dividend_yield", "eps", "beta"}
      [] f = "NEWS_SENTIMENT" ->
            {"symbol", "recent_news_count", "avg_sentiment_score",
             "positive_news_count", "negative_news_count", "recent_news"}
      [] OTHER ->
            {"symbol", "week_change", "week_change_percent", "week_data"}

EmptyDict == [k \in {} |-> ""]

\* parse_quote_data, parse_company_overview, parse_news_sentiment and
\* parse_daily_data_for_week: {} when the expected key is absent, else the
\* record, whose values other than the symbol stand for the parsed data of f
ParsedRecord(f, data, sym) ==
    IF ExpectedKey(f) \notin data.keys
    THEN EmptyDict
    ELSE [k \in RecordFields(f) |-> IF k = "symbol" THEN sym ELSE f]

\* the parser raises (float() or int() of a malformed value, a value of the
\* wrong type) when the data under the expected key is malformed
ParserRaises(f, data) == ExpectedKey(f) \in data.keys /\ ~data.wellformed

\* a handler that lets everything but the exhausted retries through
IsCaughtOnlyRuntimeError(e) == e = "RuntimeError"

\* except Exception as e: catches whatever the fetch or the parser raised
IsCaught(e) == e \in {"RuntimeError", "ValueError", "JSONDecodeError", "ParseError"}

\* an assignment in place of the update
DictReplace(r, d) == d

\* result.update(d)
DictUpdate(r, d) ==
    [k \in DOMAIN r \cup DOMAIN d |-> IF k \in DOMAIN d THEN d[k] ELSE r[k]]

Pending == [status |-> "pending", record |-> EmptyDict]

\* the start of one of the four fetch_* calls: a fresh fetch_alpha_vantage_data
\* call with the default max_retries
StartFetch(c, f) ==
    /\ fn' = [fn EXCEPT ![c] = f]
    /\ site' = [site EXCEPT ![c] = "info"]
    /\ max_retries' = [max_retries EXCEPT ![c] = 3]
    /\ pc' = [pc EXCEPT ![c] = "loop"]
    /\ attempt' = [attempt EXCEPT ![c] = 0]
    /\ result' = [result EXCEPT ![c] = "none"]
    /\ last_resp' = [last_resp EXCEPT ![c] = NoResponse]
    /\ slept' = [slept EXCEPT ![c] = 0]
    /\ acqs' = [acqs EXCEPT ![c] = 0]
    /\ gets' = [gets EXCEPT ![c] = 0]

\* result = {"symbol": symbol} and the call of fetch_quote_endpoint
info_begin(c) ==
    /\ stage[c] = "called"
    /\ stage' = [stage EXCEPT ![c] = Adapters[1]]
    /\ info_result' = [info_result EXCEPT ![c] = [k \in {"symbol"} |-> symbol[c]]]
    /\ StartFetch(c, Adapters[1])
    /\ UNCHANGED <<extVars, clock, limiterVars, histVars, transport, json_error_is_request_exception,
                   now, wait_seconds, wake, symbol, partial>>

\* what the try block of adapter f ends with once its fetch has ended
TryOutcome(c, f) ==
    IF result[c] # "data" THEN result[c]
    ELSE IF ParserRaises(f, last_resp[c]) THEN "ParseError"
    ELSE "ok"

\* the rest of a try block once its fetch has ended: parse and update, or
\* the except branch; then the next try block, or return result
info_try(c) ==
    /\ stage[c] \in {Adapters[i] : i \in 1..Len(Adapters)}
    /\ pc[c] = "done"
    /\ LET f == stage[c]
           out == TryOutcome(c, f)
           rec == IF out = "ok" THEN ParsedRecord(f, last_resp[c], symbol[c]) ELSE EmptyDict
       IN  IF out # "ok" /\ ~IsCaught(out)
           THEN /\ stage' = [stage EXCEPT ![c] = "raised"]
                /\ UNCHANGED <<info_result, partial, fn, site, max_retries, pc, attempt,
                               result, last_resp, slept, acqs, gets>>
           ELSE /\ info_result' = [info_result EXCEPT ![c] =
                                      IF out = "ok" THEN DictUpdate(@, rec) ELSE @]
                /\ partial' = [partial EXCEPT ![c][f] = [status |-> out, record |-> rec]]
                /\ IF AdapterIndex(f) < Len(Adapters)
                   THEN /\ stage' = [stage EXCEPT ![c] = Adapters[AdapterIndex(f) + 1]]
                        /\ StartFetch(c, Adapters[AdapterIndex(f) + 1])
                   ELSE /\ stage' = [stage EXCEPT ![c] = "returned"]
                        /\ UNCHANGED <<fn, site, max_retries, pc, attempt, result,
                                       last_resp, slept, acqs, gets>>
    /\ UNCHANGED <<extVars, clock, limiterVars, histVars, transport, json_error_is_request_exception,
                   now, wait_seconds, wake, symbol>>

\* ------------------------------------------------ normalize_a_share_symbol

\* Strings are sequences of one-character strings.
Whitespace == {" "}

Digits == {"0", "3", "6", "9"}

\* the characters the identifiers are drawn from
Alphabet == Digits \cup {".", "S", "H", "Z", "s", "A", " "}

\* str.upper() on one character
UpperChar(ch) ==
    CASE ch = "s" -> "S"
      [] ch = "h" -> "H"
      [] ch = "z" -> "Z"
      [] ch = "a" -> "A"
      [] OTHER -> ch

Upper(s) == [i \in 1..Len(s) |-> UpperChar(s[i])]

RECURSIVE LStrip(_)
LStrip(s) == IF s # <<>> /\ Head(s) \in Whitespace THEN LStrip(Tail(s)) ELSE s

RECURSIVE RStrip(_)
RStrip(s) ==
    IF s # <<>> /\ s[Len(s)] \in Whitespace THEN RStrip(SubSeq(s, 1, Len(s) - 1)) ELSE s

\* str.strip()
Strip(s) == RStrip(LStrip(s))

\* a test that never sees the suffix
HasDotNever(s) == FALSE

\* "." in s
HasDot(s) == \E i \in 1..Len(s) : s[i] = "."

\* s.endswith(suffix)
EndsWith(s, suffix) ==
    /\ Len(s) >= Len(suffix)
    /\ SubSeq(s, Len(s) - Len(suffix) + 1, Len(s)) = suffix

\* s[:-3]
DropLast3(s) == SubSeq(s, 1, Len(s) - 3)

normalize_a_share_symbol(raw_symbol) ==
    LET s == Upper(Strip(raw_symbol))
    IN  IF s = <<>> THEN s
        ELSE IF HasDot(s)
             THEN IF EndsWith(s, <<".", "S", "H">>) THEN DropLast3(s) \o <<".", "S", "H", "H">>
                  ELSE IF EndsWith(s, <<".", "S", "Z">>) THEN DropLast3(s) \o <<".", "S", "H", "Z">>
                  ELSE s
        ELSE IF s[1] = "6" THEN s \o <<".", "S", "H", "H">>
        ELSE IF s[1] \in {"0", "3"} THEN s \o <<".", "S", "H", "Z">>
        ELSE s

NotReturned == [done |-> FALSE, value |-> <<>>]

\* one call of normalize_a_share_symbol(argument)
call_normalize ==
    /\ callee = "normalize_a_share_symbol"
    /\ ~returned.done
    /\ returned' = [done |-> TRUE, value |-> normalize_a_share_symbol(argument)]
    /\ UNCHANGED <<batchVars, callee, argument, clock, limiterVars, callVars, aggVars,
                   histVars, pc, attempt, now, wait_seconds, wake, last_resp, slept,
                   result, acqs, gets>>

\* normalize_a_share_symbol called on what it returned, as when an identifier
\* that is already normalized is passed in again
call_normalize_again ==
    /\ callee = "normalize_a_share_symbol"
    /\ returned.done
    /\ "again" \notin DOMAIN returned
    /\ returned' = [done |-> TRUE, value |-> returned.value,
                    again |-> normalize_a_share_symbol(returned.value)]
    /\ UNCHANGED <<batchVars, callee, argument, clock, limiterVars, callVars, aggVars,
                   histVars, pc, attempt, now, wait_seconds, wake, last_resp, slept,
                   result, acqs, gets>>

\* ------------------------------------------------ parse_daily_data_for_week

\* Prices are whole thousandths; a value rounded to 2 decimals is a whole
\* number of hundredths.

\* n / d rounded to the nearest integer, halves to the even one, for d > 0
RoundHalfEvenPos(n, d) ==
    LET q == n \div d
        r == n % d
    IN  IF 2 * r < d THEN q
        ELSE IF 2 * r > d THEN q + 1
        ELSE IF q % 2 = 0 THEN q ELSE q + 1

\* round() of the quotient n / d, d # 0
RoundHalfEven(n, d) == IF d < 0 THEN RoundHalfEvenPos(-n, -d) ELSE RoundHalfEvenPos(n, d)

\* round(x, 2) of a value given in thousandths, in hundredths
Round2(x) == RoundHalfEven(x, 10)

\* sorted(time_series.keys(), reverse=True)[:7]
WeekDays == 7

\* the closes of the dates kept, most recent first; time_series is the
\* sequence of the closes in the order of their dates
WeekData(time_series) ==
    LET n == Len(time_series)
    IN  [i \in 1..Min(WeekDays, n) |-> time_series[n + 1 - i]]

\* a guard that divides by every non-zero close
HasBaseNonZero(first_close) == first_close # 0

\* ... if first_close > 0 else 0
HasBase(first_close) == first_close > 0

parse_daily_data_for_week(time_series) ==
    IF time_series = <<>> THEN EmptyDict
    ELSE LET week_data == WeekData(time_series)
             first_close == week_data[Len(week_data)]
             last_close == week_data[1]
             week_change == IF Len(week_data) >= 2 THEN last_close - first_close ELSE 0
         IN  [week_change |-> Round2(week_change),
              week_change_percent |->
                  IF Len(week_data) >= 2 /\ HasBase(first_close)
                  THEN RoundHalfEven(week_change * 100 * 100, first_close)
                  ELSE 0,
              week_data |-> week_data]

\* one call of parse_daily_data_for_week on the time series in argument
call_parse_daily ==
    /\ callee = "parse_daily_data_for_week"
    /\ ~returned.done
    /\ returned' = [done |-> TRUE, value |-> parse_daily_data_for_week(argument)]
    /\ UNCHANGED <<batchVars, callee, argument, clock, limiterVars, callVars, aggVars,
                   histVars, pc, attempt, now, wait_seconds, wake, last_resp, slept,
                   result, acqs, gets>>

\* ----------------------------------------------------- parse_news_sentiment

\* A feed item is its overall_sentiment_label, its overall_sentiment_score in
\* ten-thousandths, and whether its time_published is within the last 7 days.

\* a loop over the whole feed
ConsideredAll(feed) == feed

\* for item in feed[:10]
Considered(feed) == SubSeq(feed, 1, Min(10, Len(feed)))

\* the items of the sequence that pass the date test, in order
RECURSIVE RecentNews(_)
RecentNews(items) ==
    IF items = <<>> THEN <<>>
    ELSE IF Head(items).recent THEN <<Head(items)>> \o RecentNews(Tail(items))
    ELSE RecentNews(Tail(items))

\* total_sentiment
RECURSIVE TotalSentiment(_)
TotalSentiment(items) ==
    IF items = <<>> THEN 0 ELSE Head(items).score + TotalSentiment(Tail(items))

CountLabel(items, label) == Cardinality({i \in 1..Len(items) : items[i].label = label})

\* the counts are numbers, the average is in thousandths
parse_news_sentiment(feed) ==
    IF feed = <<>> THEN EmptyDict
    ELSE LET recent_news == RecentNews(Considered(feed))
         IN  [recent_news_count |-> Len(recent_news),
              avg_sentiment_score |->
                  IF recent_news # <<>>
                  THEN RoundHalfEven(TotalSentiment(recent_news), 10 * Len(recent_news))
                  ELSE 0,
              positive_news_count |-> CountLabel(recent_news, "positive"),
              negative_news_count |-> CountLabel(recent_news, "negative")]

\* one call of parse_news_sentiment on the feed in argument
call_parse_news ==
    /\ callee = "parse_news_sentiment"
    /\ ~returned.done
    /\ returned' = [done |-> TRUE, value |-> parse_news_sentiment(argument)]
    /\ UNCHANGED <<batchVars, callee, argument, clock, limiterVars, callVars, aggVars,
                   histVars, pc, attempt, now, wait_seconds, wake, last_resp, slept,
                   result, acqs, gets>>

\* ----------------------------------------------------------- batch drivers

\* all_results.insert(0, result)
PrependResult(rs, r) == <<r>> \o rs

\* all_results.append(result)
AppendResult(rs, r) == Append(rs, r)

\* the locals of a fetch that has returned or raised
EndFetch(c) ==
    /\ pc' = [pc EXCEPT ![c] = "idle"]
    /\ attempt' = [attempt EXCEPT ![c] = 0]
    /\ result' = [result EXCEPT ![c] = "none"]
    /\ last_resp' = [last_resp EXCEPT ![c] = NoResponse]
    /\ slept' = [slept EXCEPT ![c] = 0]
    /\ acqs' = [acqs EXCEPT ![c] = 0]
    /\ gets' = [gets EXCEPT ![c] = 0]

\* main of fetch_a_share_info.py, the head of the for loop:
\* symbol = normalize_a_share_symbol(raw_symbol) and the call of
\* fetch_stock_comprehensive_info
main_info_iter(c) ==
    /\ driver = "info"
    /\ batch = "running"
    /\ stage[c] = "none"
    /\ position < Len(raw_symbols)
    /\ symbol' = [symbol EXCEPT ![c] = normalize_a_share_symbol(raw_symbols[position + 1])]
    /\ stage' = [stage EXCEPT ![c] = "called"]
    /\ info_result' = [info_result EXCEPT ![c] = EmptyDict]
    /\ partial' = [partial EXCEPT ![c] = [f \in InfoFunctions |-> Pending]]
    /\ UNCHANGED <<batchVars, pureVars, clock, limiterVars, callVars, histVars, pc, attempt,
                   now, wait_seconds, wake, last_resp, slept, result, acqs, gets>>

\* the rest of the loop body once fetch_stock_comprehensive_info has ended:
\* all_results.append(result), or the exception it let out leaves main; after
\* the last identifier main writes its output
main_info_append(c) ==
    /\ driver = "info"
    /\ batch = "running"
    /\ stage[c] \in {"returned", "raised"}
    /\ IF stage[c] = "returned"
       THEN /\ all_results' = AppendResult(all_results, info_result[c])
            /\ position' = position + 1
            /\ batch' = IF position + 1 = Len(raw_symbols) THEN "finished" ELSE batch
       ELSE /\ batch' = "Exception"
            /\ UNCHANGED <<all_results, position>>
    /\ stage' = [stage EXCEPT ![c] = "none"]
    /\ EndFetch(c)
    /\ UNCHANGED <<driver, raw_symbols, frames, pureVars, clock, limiterVars, callVars,
                   histVars, now, wait_seconds, wake, symbol, info_result, partial>>

\* main of fetch_a_shares.py, the head of the for loop:
\* symbol = normalize_a_share_symbol(raw_symbol) and the call of
\* fetch_alpha_vantage_daily with the default max_retries
main_daily_iter(c) ==
    /\ driver = "daily"
    /\ batch = "running"
    /\ pc[c] = "idle"
    /\ position < Len(raw_symbols)
    /\ symbol' = [symbol EXCEPT ![c] = normalize_a_share_symbol(raw_symbols[position + 1])]
    /\ fn' = [fn EXCEPT ![c] = "TIME_SERIES_DAILY"]
    /\ site' = [site EXCEPT ![c] = "daily"]
    /\ max_retries' = [max_retries EXCEPT ![c] = 5]
    /\ pc' = [pc EXCEPT ![c] = "loop"]
    /\ UNCHANGED <<batchVars, pureVars, clock, limiterVars, histVars, transport,
                   json_error_is_request_exception, attempt, now, wait_seconds, wake,
                   last_resp, slept, result, acqs, gets, stage, info_result, partial>>

\* what the call of fetch_alpha_vantage_daily and parse_daily_to_dataframe
\* gives main: "ok", or the exception raised (nothing in main catches it)
DailyOutcome(c) ==
    IF result[c] # "data" THEN result[c]
    ELSE IF ParserRaises("TIME_SERIES_DAILY", last_resp[c]) THEN "ParseError"
    ELSE "ok"

\* the rest of the loop body once fetch_alpha_vantage_daily has ended: the
\* exception leaves main, or the payload is parsed and the frame kept unless
\* it is empty; after the last identifier main writes its output, or exits
\* with status 1 when no frame was kept
main_daily_collect(c) ==
    /\ driver = "daily"
    /\ batch = "running"
    /\ pc[c] = "done"
    /\ IF DailyOutcome(c) # "ok"
       THEN /\ batch' = DailyOutcome(c)
            /\ UNCHANGED <<frames, position>>
       ELSE /\ \E empty \in BOOLEAN :
                  frames' = IF empty THEN frames ELSE Append(frames, symbol[c])
            /\ position' = position + 1
            /\ batch' = IF position + 1 < Len(raw_symbols) THEN batch
                        ELSE IF frames' = <<>> THEN "SystemExit" ELSE "finished"
    /\ EndFetch(c)
    /\ UNCHANGED <<driver, raw_symbols, all_results, pureVars, clock, limiterVars, callVars,
                   histVars, now, wait_seconds, wake, aggVars>>

\* --------------------------------------------------------- specifications

\* the state right after RateLimiter.__init__ and the fetchers' entry
InitLimiterAt(clocks, cpms) ==
    /\ clock \in clocks
    /\ interval_seconds \in {IntervalSeconds(cpm) : cpm \in cpms}
    /\ lock = {}
    /\ last_call_ts = 0
    /\ grants = 0
    /\ first_grant_ts = 0
    /\ prev_grant_ts = 0
    /\ total_gets = 0
    /\ prev_get_ts = 0
    /\ last_get_ts = 0

InitLimiter(cpms) == InitLimiterAt(0..MaxInitClock, cpms)

AllResponses == UNION {Responses(f) : f \in InfoFunctions}

\* an upstream that answers only with responses of one kind, or with any
Transports ==
    { {Http500}, {NetworkError}, {NotJson}, AllResponses }
    \cup { {r} : r \in AllResponses }

\* an upstream that answers with an HTTP error or with the endpoint's data
PlainTransport ==
    {Http500} \cup {b \in AllResponses : /\ b.wellformed
                                         /\ Cardinality(b.keys) = 1
                                         /\ b.keys \cap {"Note", "Information", "Error Message"} = {}}

\* an upstream that can make each adapter end in every way: exhausted
\* retries, an undecodable body, an error payload, a body without the
\* expected key, malformed data and good data
MixedTransport ==
    {Http500, NotJson}
    \cup {b \in AllResponses : b.json_ok /\ b.keys \cap {"Note", "Information"} = {}
                                          /\ Cardinality(b.keys) <= 1}

\* normalized identifiers, as main passes them on
Symbols == {"600519.SHH", "000001.SHZ"}

InitCallers(active, retries, sites) ==
    /\ pc = [c \in Callers |-> IF c \in active THEN "loop" ELSE "idle"]
    /\ \E s \in sites : site = [c \in Callers |-> IF c \in active THEN s ELSE "info"]
    /\ fn = [c \in Callers |-> IF site[c] = "info" THEN "GLOBAL_QUOTE" ELSE "TIME_SERIES_DAILY"]
    /\ max_retries \in [Callers -> retries]
    /\ \A c \in Callers \ active : max_retries[c] = 1
    /\ attempt = [c \in Callers |-> 0]
    /\ now = [c \in Callers |-> 0]
    /\ wait_seconds = [c \in Callers |-> 0]
    /\ wake = [c \in Callers |-> 0]
    /\ last_resp = [c \in Callers |-> NoResponse]
    /\ slept = [c \in Callers |-> 0]
    /\ result = [c \in Callers |-> "none"]
    /\ acqs = [c \in Callers |-> 0]
    /\ gets = [c \in Callers |-> 0]

\* no caller is inside fetch_stock_comprehensive_info
InitNoAggregator ==
    /\ symbol = [c \in Callers |-> "600519.SHH"]
    /\ stage = [c \in Callers |-> "none"]
    /\ info_result = [c \in Callers |-> EmptyDict]
    /\ partial = [c \in Callers |-> [f \in InfoFunctions |-> Pending]]

\* neither main is running
InitNoBatch ==
    /\ driver = "none"
    /\ raw_symbols = <<>>
    /\ position = 0
    /\ all_results = <<>>
    /\ frames = <<>>
    /\ batch = "none"

\* no pure function is under call
InitNoCall ==
    /\ callee = "none"
    /\ argument = <<>>
    /\ returned = NotReturned

\* several callers fetch concurrently through one limiter
Init ==
    /\ InitLimiter(CallsPerMinute)
    /\ transport = PlainTransport
    /\ json_error_is_request_exception = TRUE
    /\ InitCallers(Callers, {MaxRetriesTimed}, Sites)
    /\ InitNoAggregator
    /\ InitNoBatch
    /\ InitNoCall

\* one caller fetches with the default or a large retry budget
InitFetch ==
    /\ InitLimiter(CallsPerMinute)
    /\ transport \in Transports
    /\ json_error_is_request_exception \in BOOLEAN
    /\ InitCallers({1}, {1, 3, 5, MaxRetries}, Sites)
    /\ InitNoAggregator
    /\ InitNoBatch
    /\ InitNoCall

\* the main thread has called fetch_stock_comprehensive_info(symbol, ...)
InitInfo ==
    /\ InitLimiter({30})
    /\ transport = MixedTransport
    /\ json_error_is_request_exception \in BOOLEAN
    /\ InitCallers({}, {1}, {"info"})
    /\ symbol \in [Callers -> Symbols]
    /\ symbol[2] = "600519.SHH"
    /\ stage = [c \in Callers |-> IF c = 1 THEN "called" ELSE "none"]
    /\ info_result = [c \in Callers |-> EmptyDict]
    /\ partial = [c \in Callers |-> [f \in InfoFunctions |-> Pending]]
    /\ InitNoBatch
    /\ InitNoCall

Next ==
    \/ Tick
    \/ \E c \in Callers : wait_enter(c)
    \/ \E c \in Callers : wait_compute(c)
    \/ \E c \in Callers : wait_sleep(c)
    \/ \E c \in Callers : wait_stamp(c)
    \/ \E c \in Callers : wait_exit(c)
    \/ \E c \in Callers : for_loop(c)
    \/ \E c \in Callers : session_get(c)
    \/ \E c \in Callers : handle_response(c)
    \/ \E c \in Callers : backoff_sleep(c)

Spec == Init /\ [][Next]_vars

SpecFetch == InitFetch /\ [][Next]_vars

NextInfo ==
    \/ Next
    \/ \E c \in Callers : info_begin(c)
    \/ \E c \in Callers : info_try(c)

SpecInfo == InitInfo /\ [][NextInfo]_vars

\* the strings of at most n characters
Strings(n) == UNION {[1..k -> Alphabet] : k \in 0..n}

\* normalize_a_share_symbol is called on a string
InitNormalize ==
    /\ InitLimiter({60})
    /\ transport = PlainTransport
    /\ json_error_is_request_exception = TRUE
    /\ InitCallers({}, {1}, {"info"})
    /\ InitNoAggregator
    /\ InitNoBatch
    /\ callee = "normalize_a_share_symbol"
    /\ argument \in Strings(MaxSymbolLen)
    /\ returned = NotReturned

NextNormalize == call_normalize

SpecNormalize == InitNormalize /\ [][NextNormalize]_vars

NextNormalizeTwice ==
    \/ call_normalize
    \/ call_normalize_again

SpecNormalizeTwice == InitNormalize /\ [][NextNormalizeTwice]_vars

\* closing prices, in thousandths
Closes == {-1004, 0, 1004, 2500}

\* parse_daily_data_for_week is called on a time series of at most MaxDays
\* dates, given as the closes in the order of the dates
InitWeek ==
    /\ InitLimiterAt({0}, {60})
    /\ transport = PlainTransport
    /\ json_error_is_request_exception = TRUE
    /\ InitCallers({}, {1}, {"info"})
    /\ InitNoAggregator
    /\ InitNoBatch
    /\ callee = "parse_daily_data_for_week"
    /\ argument \in UNION {[1..n -> Closes] : n \in 0..MaxDays}
    /\ returned = NotReturned

NextWeek == call_parse_daily

SpecWeek == InitWeek /\ [][NextWeek]_vars

\* an item published more than 7 days ago and three published within them
OldItem == [recent |-> FALSE, label |-> "positive", score |-> 9000]
PositiveItem == [recent |-> TRUE, label |-> "positive", score |-> 2501]
NegativeItem == [recent |-> TRUE, label |-> "negative", score |-> -1500]

\* the feeds of n items of which two are recent and positive, one is recent
\* and negative and the others are old, in every order
Feeds(n) ==
    { [i \in 1..n |-> IF i \in {p1, p2} THEN PositiveItem
                      ELSE IF i = q THEN NegativeItem ELSE OldItem] :
        <<p1, p2, q>> \in {t \in (1..n) \X (1..n) \X (1..n) :
                              t[1] < t[2] /\ t[3] \notin {t[1], t[2]}} }

\* parse_news_sentiment is called on such a feed of at most MaxFeed items
InitNews ==
    /\ InitLimiterAt({0}, {60})
    /\ transport = PlainTransport
    /\ json_error_is_request_exception = TRUE
    /\ InitCallers({}, {1}, {"info"})
    /\ InitNoAggregator
    /\ InitNoBatch
    /\ callee = "parse_news_sentiment"
    /\ argument \in UNION {Feeds(n) : n \in 3..MaxFeed}
    /\ returned = NotReturned

NextNews == call_parse_news

SpecNews == InitNews /\ [][NextNews]_vars

\* args.symbols of the batch drivers
RawSymbols == { <<"6", "0">>, <<"0", "1", ".", "s", "z">> }

\* an upstream that is down, and one that answers each request with an
\* error payload or with the endpoint's data
BatchTransports ==
    { {Http500},
      {b \in AllResponses : /\ b.wellformed
                            /\ Cardinality(b.keys) = 1
                            /\ b.keys \cap {"Note", "Information"} = {}} }

\* one of the two mains has parsed its arguments and built the limiter;
\* time.monotonic() counts from an arbitrary origin, here one second short
\* of the horizon
InitBatch ==
    /\ InitLimiterAt({MaxClock - 1}, {60})
    /\ transport \in BatchTransports
    /\ json_error_is_request_exception = TRUE
    /\ InitCallers({}, {1}, {"info"})
    /\ InitNoAggregator
    /\ InitNoCall
    /\ driver \in {"info", "daily"}
    /\ raw_symbols \in UNION {[1..n -> RawSymbols] : n \in 1..MaxSymbols}
    /\ position = 0
    /\ all_results = <<>>
    /\ frames = <<>>
    /\ batch = "running"

\* the main thread is caller 1
NextBatch ==
    \/ NextInfo
    \/ main_info_iter(1)
    \/ main_info_append(1)
    \/ main_daily_iter(1)
    \/ main_daily_collect(1)

SpecBatch == InitBatch /\ [][NextBatch]_vars

\* one fetch, or one fetch_stock_comprehensive_info call, by a single thread
\* against an upstream that can answer each request in any way
InitTerminate ==
    /\ json_error_is_request_exception \in BOOLEAN
    /\ InitNoBatch
    /\ InitNoCall
    /\ \/ /\ InitLimiter({60})
          /\ transport = AllResponses
          /\ InitCallers({1}, {1, 3, 5}, Sites)
          /\ InitNoAggregator
       \/ /\ InitLimiterAt({MaxClock - 1}, {60})
          /\ transport = MixedTransport
          /\ InitCallers({}, {1}, {"info"})
          /\ symbol = [c \in Callers |-> "600519.SHH"]
          /\ stage = [c \in Callers |-> IF c = 1 THEN "called" ELSE "none"]
          /\ info_result = [c \in Callers |-> EmptyDict]
          /\ partial = [c \in Callers |-> [f \in InfoFunctions |-> Pending]]

\* the clock goes on and the one thread is scheduled whenever it can run
SpecTerminate == InitTerminate /\ [][NextInfo]_vars /\ WF_vars(NextInfo)

\* the steps of caller c other than taking the lock
CallerStep(c) ==
    \/ wait_compute(c)
    \/ wait_sleep(c)
    \/ wait_stamp(c)
    \/ wait_exit(c)
    \/ for_loop(c)
    \/ session_get(c)
    \/ handle_response(c)
    \/ backoff_sleep(c)

\* several callers run fetch_alpha_vantage_data concurrently through one limiter
InitFair ==
    /\ InitLimiter({30})
    /\ transport = PlainTransport
    /\ json_error_is_request_exception = TRUE
    /\ InitCallers(Callers, {MaxRetriesTimed}, {"info"})
    /\ InitNoAggregator
    /\ InitNoBatch
    /\ InitNoCall

\* the clock goes on, every thread is scheduled whenever it can run, and the
\* lock is fair: a thread that finds the lock free again and again gets it
SpecFair ==
    /\ InitFair
    /\ [][Next]_vars
    /\ WF_vars(Tick)
    /\ \A c \in Callers : WF_vars(CallerStep(c)) /\ SF_vars(wait_enter(c))

\* ----------------------------------------------------------------- claims

\* the callers inside the critical section of wait()
InWait == {c \in Callers : pc[c] \in {"w_now", "w_sleep", "w_stamp", "w_unlock"}}

\* C1: before the horizon, the recorded last-call time of a granted
\* acquisition is at least interval_seconds after that of the acquisition
\* granted before it, so the N acquisitions granted so far span at least
\* (N-1) * interval_seconds, whichever callers they were granted to.
C1_GrantsSpaced ==
    last_call_ts < MaxClock =>
        /\ grants >= 2 => last_call_ts - prev_grant_ts >= interval_seconds
        /\ grants >= 1 => last_call_ts - first_grant_ts >= (grants - 1) * interval_seconds

C1_Witness ==
    /\ grants >= 3
    /\ last_call_ts < MaxClock
    /\ \A c \in Callers : acqs[c] >= 1

\* C2: before the horizon, any two GETs dispatched one after the other
\* through the limiter are dispatched at least interval_seconds apart.
C2_DispatchesSpaced ==
    (total_gets >= 2 /\ last_get_ts < MaxClock) =>
        last_get_ts - prev_get_ts >= interval_seconds

\* C3: at most one caller is inside wait()'s critical section; it holds the
\* lock from the clock reading to the update, and the wait it sleeps was
\* computed from the last-call time that is still the recorded one.
C3_MutualExclusion ==
    /\ Cardinality(InWait) <= 1
    /\ \A c \in InWait : lock = {c}
    /\ \A c \in Callers : pc[c] \in {"w_sleep", "w_stamp"} =>
           wait_seconds[c] = interval_seconds - (now[c] - last_call_ts)

C3_Witness ==
    \E c, d \in Callers :
        /\ pc[c] = "w_sleep"
        /\ pc[d] = "w_lock"
        /\ grants >= 1

\* C4: no step of any interleaving of wait() calls lowers _last_call_ts.
C4_LastCallMonotonic == [][last_call_ts' >= last_call_ts]_vars

C4_Witness ==
    /\ grants >= 2
    /\ last_call_ts > prev_grant_ts
    /\ \A c \in Callers : acqs[c] >= 1

\* C5: when every response is a non-200 status, a fetch that has ended has
\* made exactly max_retries acquisitions and max_retries GETs and has raised
\* RuntimeError; it never returns data.
C5_ExhaustedAfterMaxRetries ==
    \A c \in Callers :
        transport = {Http500} =>
            /\ result[c] \in {"none", "RuntimeError"}
            /\ pc[c] = "done" =>
                  /\ result[c] = "RuntimeError"
                  /\ acqs[c] = max_retries[c]
                  /\ gets[c] = max_retries[c]

C5_Witness ==
    \E c \in Callers :
        /\ transport = {Http500}
        /\ pc[c] = "done"
        /\ max_retries[c] = 5
        /\ gets[c] = 5
        /\ result[c] = "RuntimeError"

\* a 200 body with the error-message key and no soft-throttle marker
ErrorPayload(r) ==
    /\ ~r.exc /\ r.status_code = 200 /\ r.json_ok
    /\ "Error Message" \in r.keys
    /\ r.keys \cap {"Note", "Information"} = {}

\* C6: once attempt k has received an error-message payload the fetch has
\* ended with ValueError, without a backoff sleep and with exactly k
\* acquisitions and k GETs made.
C6_ErrorPayloadFailsAtOnce ==
    \A c \in Callers :
        ErrorPayload(last_resp[c]) =>
            /\ pc[c] = "done"
            /\ result[c] = "ValueError"
            /\ slept[c] = 0
            /\ acqs[c] = attempt[c]
            /\ gets[c] = attempt[c]

C6_Witness ==
    \E c \in Callers :
        /\ ErrorPayload(last_resp[c])
        /\ result[c] = "ValueError"
        /\ attempt[c] = 1
        /\ gets[c] = 1
        /\ max_retries[c] > 1

\* C7: every attempt makes one acquisition and then one GET: a caller about
\* to issue attempt k's GET has completed k acquisitions and issued k-1
\* GETs, and everywhere else acquisitions and GETs are equal in number.
C7_AcquireBeforeEveryGet ==
    \A c \in Callers :
        /\ pc[c] = "get" => acqs[c] = attempt[c] /\ gets[c] = attempt[c] - 1
        /\ pc[c] \in {"in_get", "backoff"} => acqs[c] = attempt[c] /\ gets[c] = attempt[c]
        /\ pc[c] # "get" => acqs[c] = gets[c]

C7_Witness ==
    \E c \in Callers :
        /\ pc[c] = "in_get"
        /\ attempt[c] = 3
        /\ acqs[c] = 3
        /\ gets[c] = 3

\* a 200 body with no soft-throttle marker, no error-message key and not
\* the key the endpoint's data comes under
UnexpectedShape(f, r) ==
    /\ ~r.exc /\ r.status_code = 200 /\ r.json_ok
    /\ r.keys \cap {"Note", "Information", "Error Message", ExpectedKey(f)} = {}

\* C8: a body of unexpected shape is not returned: the fetcher sleeps
\* min(60, attempt*2) seconds and goes on with the next attempt.
C8_UnexpectedShapeRetried ==
    \A c \in Callers :
        UnexpectedShape(fn[c], last_resp[c]) =>
            /\ result[c] # "data"
            /\ pc[c] = "backoff" => slept[c] = Min(60, attempt[c] * 2)
            /\ pc[c] = "done" => result[c] = "RuntimeError" /\ gets[c] = max_retries[c]

\* C8 as amended: fetch_alpha_vantage_daily does not return a body of
\* unexpected shape: it sleeps min(60, attempt*2) seconds and goes on with
\* the next attempt; fetch_alpha_vantage_data returns such a body at once.
C8_UnexpectedShapeBySite ==
    \A c \in Callers :
        UnexpectedShape(fn[c], last_resp[c]) =>
            IF site[c] = "daily"
            THEN /\ result[c] # "data"
                 /\ gets[c] = attempt[c]
                 /\ pc[c] = "backoff" => slept[c] = Min(60, attempt[c] * 2)
                 /\ pc[c] = "done" => result[c] = "RuntimeError" /\ gets[c] = max_retries[c]
            ELSE /\ pc[c] = "done"
                 /\ result[c] = "data"
                 /\ slept[c] = 0
                 /\ gets[c] = attempt[c]

C8_Witness ==
    \E c \in Callers :
        /\ UnexpectedShape(fn[c], last_resp[c])
        /\ site[c] = "daily"
        /\ pc[c] = "done"
        /\ result[c] = "RuntimeError"
        /\ max_retries[c] = 3

\* C9: the backoff of failed attempt k is min(30, 2k) seconds after a
\* non-200 status or a network error and min(60, 15k) after a soft-throttle
\* body (min(75, 10k) in fetch_alpha_vantage_daily); the attempt is consumed
\* and the fetch has not ended.
C9_BackoffByClass ==
    \A c \in Callers :
        pc[c] = "backoff" =>
            /\ result[c] = "none"
            /\ gets[c] = attempt[c]
            /\ (last_resp[c].exc \/ last_resp[c].status_code # 200) =>
                   slept[c] = Min(30, 2 * attempt[c])
            /\ (last_resp[c].json_ok /\ last_resp[c].keys \cap {"Note", "Information"} # {}) =>
                   slept[c] = IF site[c] = "daily" THEN Min(75, 10 * attempt[c])
                                                   ELSE Min(60, 15 * attempt[c])

\* C9 as amended: after a non-200 status or a network error the backoff is
\* min(30, 2k) seconds in fetch_alpha_vantage_data and min(60, 2k) seconds
\* in fetch_alpha_vantage_daily; the rest as claimed.
C9_BackoffByClassAndSite ==
    \A c \in Callers :
        pc[c] = "backoff" =>
            /\ result[c] = "none"
            /\ gets[c] = attempt[c]
            /\ (last_resp[c].exc \/ last_resp[c].status_code # 200) =>
                   slept[c] = IF site[c] = "daily" THEN Min(60, 2 * attempt[c])
                                                   ELSE Min(30, 2 * attempt[c])
            /\ (last_resp[c].json_ok /\ last_resp[c].keys \cap {"Note", "Information"} # {}) =>
                   slept[c] = IF site[c] = "daily" THEN Min(75, 10 * attempt[c])
                                                   ELSE Min(60, 15 * attempt[c])

C9_Witness ==
    \E c \in Callers :
        /\ pc[c] = "backoff"
        /\ site[c] = "daily"
        /\ attempt[c] = MaxRetries
        /\ last_resp[c].status_code = 500
        /\ slept[c] = 2 * MaxRetries

\* C10: fetch_stock_comprehensive_info lets no failure of an adapter out,
\* and when it returns all four adapters have run and result holds the
\* symbol passed in plus exactly the fields of the records of the adapters
\* that succeeded, with their values, and no field of an adapter that failed.
C10_AggregatorIsolation ==
    \A c \in Callers :
        /\ stage[c] # "raised"
        /\ stage[c] = "returned" =>
            LET ok == {f \in InfoFunctions : partial[c][f].status = "ok"}
            IN  /\ \A f \in InfoFunctions : partial[c][f].status # "pending"
                /\ DOMAIN info_result[c] =
                       {"symbol"} \cup UNION {DOMAIN partial[c][f].record : f \in ok}
                /\ info_result[c]["symbol"] = symbol[c]
                /\ \A f \in ok : \A k \in DOMAIN partial[c][f].record :
                       info_result[c][k] = partial[c][f].record[k]
                /\ \A f \in InfoFunctions \ ok :
                       (RecordFields(f) \ {"symbol"}) \cap DOMAIN info_result[c] = {}

C10_Witness ==
    \E c \in Callers :
        /\ stage[c] = "returned"
        /\ partial[c]["OVERVIEW"].status = "RuntimeError"
        /\ \A f \in InfoFunctions \ {"OVERVIEW"} :
               /\ partial[c][f].status = "ok"
               /\ DOMAIN partial[c][f].record = RecordFields(f)
        /\ "company_name" \notin DOMAIN info_result[c]
        /\ {"current_price", "recent_news_count", "week_data"} \subseteq DOMAIN info_result[c]

\* the exceptions an endpoint-level failure shows as: the exhausted retries
\* and the upstream's error payload
EndpointFailures == {"RuntimeError", "ValueError"}

\* C11: no endpoint-level failure of one identifier crosses the for loop of
\* either main and stops the identifiers after it from being processed.
C11_NoFailureCrossesBatch == batch \notin EndpointFailures

\* C12: main of fetch_a_share_info.py works on one identifier at a time, in
\* input order: the results so far are those of the first identifiers, each
\* at the position of its input and carrying its normalized symbol, the call
\* in progress is for the next identifier, and when main has finished there
\* is exactly one result per input, whatever the endpoints returned.
C12_BatchInOrder ==
    driver = "info" =>
        /\ batch \in {"running", "finished"}
        /\ Len(all_results) = position
        /\ position <= Len(raw_symbols)
        /\ \A i \in 1..Len(all_results) :
               all_results[i]["symbol"] = normalize_a_share_symbol(raw_symbols[i])
        /\ \A c \in Callers : stage[c] # "none" =>
               /\ position < Len(raw_symbols)
               /\ symbol[c] = normalize_a_share_symbol(raw_symbols[position + 1])
        /\ batch = "finished" <=> Len(all_results) = Len(raw_symbols)

C12_Witness ==
    /\ driver = "info"
    /\ batch = "finished"
    /\ Len(raw_symbols) = 2
    /\ raw_symbols[1] # raw_symbols[2]
    /\ "current_price" \notin DOMAIN all_results[1]
    /\ "current_price" \in DOMAIN all_results[2]
    /\ all_results[2]["symbol"] = <<"6", "0", ".", "S", "H", "H">>

\* a non-empty string of digits only
IsBareNumeric(s) == s # <<>> /\ \A i \in 1..Len(s) : s[i] \in Digits

\* the result the normalization rules give for a raw identifier: the prefix
\* rules for bare numeric identifiers, the rewriting of the two legacy
\* suffixes, and everything else unchanged (trimmed and upper-cased)
NormalizedByRule(raw) ==
    LET s == Upper(Strip(raw))
    IN  IF IsBareNumeric(s) /\ s[1] = "6" THEN s \o <<".", "S", "H", "H">>
        ELSE IF IsBareNumeric(s) /\ s[1] \in {"0", "3"} THEN s \o <<".", "S", "H", "Z">>
        ELSE IF EndsWith(s, <<".", "S", "H">>) THEN DropLast3(s) \o <<".", "S", "H", "H">>
        ELSE IF EndsWith(s, <<".", "S", "Z">>) THEN DropLast3(s) \o <<".", "S", "H", "Z">>
        ELSE s

\* C13: normalize_a_share_symbol returns, for the trimmed and upper-cased
\* input, the input plus ".SHH" when it is bare numeric and starts with 6,
\* plus ".SHZ" when it is bare numeric and starts with 0 or 3, the input
\* with ".SH" rewritten to ".SHH" or ".SZ" to ".SHZ" when it ends so, and
\* the input unchanged in every other case.
C13_NormalizedByRule ==
    (callee = "normalize_a_share_symbol" /\ returned.done) =>
        returned.value = NormalizedByRule(argument)

\* C14: for a time series of 7 dates with closes C1..C7, week_change is
\* round(C7 - C1, 2); week_change_percent is round((C7 - C1) / C1 * 100, 2)
\* when C1 # 0; both are 0 when C1 = 0.
C14_WeekChange ==
    (callee = "parse_daily_data_for_week" /\ returned.done /\ Len(argument) = 7) =>
        LET C1 == argument[1]
            C7 == argument[7]
        IN  IF C1 # 0
            THEN /\ returned.value["week_change"] = Round2(C7 - C1)
                 /\ returned.value["week_change_percent"] =
                        RoundHalfEven((C7 - C1) * 100 * 100, C1)
            ELSE /\ returned.value["week_change"] = 0
                 /\ returned.value["week_change_percent"] = 0

\* C14 as amended: week_change is round(C7 - C1, 2) whatever C1 is;
\* week_change_percent is round((C7 - C1) / C1 * 100, 2) when C1 > 0 and 0
\* when C1 <= 0.
C14_WeekChangePositiveBase ==
    (callee = "parse_daily_data_for_week" /\ returned.done /\ Len(argument) = 7) =>
        LET C1 == argument[1]
            C7 == argument[7]
        IN  /\ returned.value["week_change"] = Round2(C7 - C1)
            /\ returned.value["week_change_percent"] =
                   IF C1 > 0 THEN RoundHalfEven((C7 - C1) * 100 * 100, C1) ELSE 0

C14_Witness ==
    /\ callee = "parse_daily_data_for_week"
    /\ returned.done
    /\ Len(argument) = 7
    /\ argument[1] = 1004
    /\ argument[7] = 2500
    /\ returned.value["week_change"] = 150
    /\ returned.value["week_change_percent"] = 14900

RecentInHead(feed) == {i \in 1..Min(10, Len(feed)) : feed[i].recent}

DecodeError(r) == ~r.exc /\ r.status_code = 200 /\ ~r.json_ok

\* C16: an attempt that got a 200 response with a malformed body is a
\* retryable soft failure: the fetcher sleeps a backoff and goes on with the
\* next attempt, and the fetch ends only when the retry budget is exhausted.
C16_DecodeErrorRetried ==
    \A c \in Callers :
        DecodeError(last_resp[c]) =>
            /\ gets[c] = attempt[c]
            /\ \/ pc[c] \in {"backoff", "loop"} /\ slept[c] > 0 /\ result[c] = "none"
               \/ /\ pc[c] = "done"
                  /\ result[c] = "RuntimeError"
                  /\ gets[c] = max_retries[c]

\* the callers that are between two wait() calls: about to issue the GET,
\* inside it, or in the backoff sleep
OutsideWait == {c \in Callers : pc[c] \in {"get", "in_get", "backoff"}}

\* C17: a caller inside a GET or a backoff sleep does not hold the lock, and
\* its steps there change neither the lock nor _last_call_ts; whenever the
\* lock is held, it is held by a caller inside wait(), so only such a caller
\* can make another caller's wait() wait for the lock.
C17_SuspensionsLeaveLimiterAlone ==
    /\ [](/\ \A c \in OutsideWait : c \notin lock
          /\ lock \subseteq InWait
          /\ \A d \in Callers :
                 (pc[d] = "w_lock" /\ InWait = {}) => ENABLED wait_enter(d))
    /\ [][\A c \in OutsideWait :
             pc'[c] # pc[c] => lock' = lock /\ last_call_ts' = last_call_ts]_vars

C17_Witness ==
    \E c, d \in Callers :
        /\ pc[c] = "backoff"
        /\ clock < wake[c]
        /\ pc[d] = "w_stamp"
        /\ lock = {d}
        /\ attempt[d] = 2

\* the ways a fetch ends: the response is returned, the upstream's error
\* payload or an undecodable body raises a ValueError (json's decode error
\* is one), or the retries are exhausted
FetchEnds == {"data", "ValueError", "JSONDecodeError", "RuntimeError"}

\* every fetch has ended and every fetch_stock_comprehensive_info call with it
Terminated ==
    \A c \in Callers :
        /\ pc[c] \in {"idle", "done"}
        /\ pc[c] = "done" => result[c] \in FetchEnds
        /\ stage[c] \in {"none", "returned", "raised"}

\* C18: whatever the upstream answers, a fetch makes at most max_retries
\* acquisitions and at most max_retries GETs and ends, in one of the three
\* ways; one fetch_stock_comprehensive_info call issues at most 4 times the
\* default max_retries GETs and ends too.
C18_TerminatesWithinBudget ==
    /\ [](\A c \in Callers :
             /\ attempt[c] <= max_retries[c]
             /\ acqs[c] <= max_retries[c]
             /\ gets[c] <= max_retries[c]
             /\ stage[c] # "none" => total_gets <= Len(Adapters) * 3)
    /\ <>[]Terminated

C18_Witness ==
    /\ Terminated
    /\ stage[1] = "returned"
    /\ total_gets = Len(Adapters) * 3
    /\ \A f \in InfoFunctions : partial[1][f].status = "RuntimeError"

\* C19: whenever no caller is inside wait() the lock is free, the lock is
\* only ever held by a caller that is inside wait(), and with a fair lock
\* every wait() that is pending returns.
C19_NoDeadlock ==
    /\ [](InWait = {} => lock = {})
    /\ [](\A c \in InWait : c \in lock)
    /\ \A c \in Callers : (pc[c] = "w_lock") ~> (pc[c] = "get")

C19_Witness ==
    \E c, d \in Callers :
        /\ pc[c] = "get"
        /\ acqs[c] = 2
        /\ pc[d] = "w_lock"
        /\ acqs[d] = 1
        /\ lock = {}

\* a 200 body that carries a soft-throttle marker and the error-message key
ThrottledErrorPayload(r) ==
    /\ ~r.exc /\ r.status_code = 200 /\ r.json_ok
    /\ r.keys \cap {"Note", "Information"} # {}
    /\ "Error Message" \in r.keys

\* C20: the soft-throttle markers are tested before the error-message key:
\* an attempt that got a body with both is retried after the throttle
\* backoff, and the fetch does not fail with ValueError at that attempt.
C20_ThrottleBeforeError ==
    \A c \in Callers :
        ThrottledErrorPayload(last_resp[c]) =>
            /\ result[c] # "ValueError"
            /\ gets[c] = attempt[c]
            /\ \/ /\ pc[c] \in {"backoff", "loop"}
                  /\ result[c] = "none"
                  /\ slept[c] = ThrottleBackoff(site[c], attempt[c])
               \/ /\ pc[c] = "done"
                  /\ result[c] = "RuntimeError"
                  /\ attempt[c] = max_retries[c]

C20_Witness ==
    \E c \in Callers :
        /\ ThrottledErrorPayload(last_resp[c])
        /\ pc[c] = "backoff"
        /\ site[c] = "daily"
        /\ attempt[c] = 2
        /\ slept[c] = 20

\* C21: normalize_a_share_symbol is idempotent: applied to its own result it
\* returns that result, so an identifier that already ends in .SHH or .SHZ
\* is not suffixed or rewritten a second time.
C21_NormalizeIdempotent ==
    (callee = "normalize_a_share_symbol" /\ returned.done /\ "again" \in DOMAIN returned) =>
        /\ returned.value = normalize_a_share_symbol(argument)
        /\ returned.again = returned.value

C21_Witness ==
    /\ callee = "normalize_a_share_symbol"
    /\ returned.done
    /\ "again" \in DOMAIN returned
    /\ argument = <<"0", ".", "s", "Z">>
    /\ returned.value = <<"0", ".", "S", "H", "Z">>
    /\ returned.again = <<"0", ".", "S", "H", "Z">>

====
